---- MODULE Spec2Model ----
(***************************************************************************)
(* Wing test explorer: test discovery (parser.ts), reconciliation of the   *)
(* file/test tree (WingFile in testTree, createTestItemFromFile and the    *)
(* file watchers in extension.ts) and the run orchestrator (startTestRun,  *)
(* runHandler, TestCase.run).                                              *)
(*                                                                         *)
(* extension.ts holds two revisions of the extension: lines 1-324 keep the *)
(* file nodes in the root collection and collect line coverage             *)
(* ("ungrouped"), lines 326-633 group the file nodes under a per-workspace *)
(* parent node ("grouped").  The variable `grouped` selects the revision.  *)
(***************************************************************************)
EXTENDS Integers, Sequences, FiniteSets, TLC

(***************************************************************************)
(* Texts are tuples of one-character strings.                              *)
(***************************************************************************)
NL == "\n"
QUOTE == "\""
KW == <<"t", "e", "s", "t", " ", QUOTE>>
QB == <<QUOTE, " ", "{">>
RB == <<"}">>


(* text.startsWith(lit, i) for the literal parts of regexPattern *)
HasAt(text, i, lit) ==
  /\ i + Len(lit) - 1 <= Len(text)
  /\ \A k \in 1..Len(lit) : text[i + k - 1] = lit[k]

(* index of the first `stop` at or after i, Len(text)+1 when there is none:
   the end of the greedy run [^stop]+ that starts at i *)
RECURSIVE RunEnd(_, _, _)
RunEnd(text, i, stop) ==
  IF i > Len(text) THEN Len(text) + 1
  ELSE IF text[i] = stop THEN i
  ELSE RunEnd(text, i + 1, stop)

(* one attempt of /test "([^"]+)" \{[^}]+\}/ anchored at position i *)
MatchAt(text, i) ==
  IF ~HasAt(text, i, KW) THEN [ok |-> FALSE]
  ELSE LET nameStart == i + Len(KW)
           q == RunEnd(text, nameStart, QUOTE)
       IN IF q = nameStart \/ ~HasAt(text, q, QB) THEN [ok |-> FALSE]
          ELSE LET bodyStart == q + Len(QB)
                   b == RunEnd(text, bodyStart, "}")
               IN IF b = bodyStart \/ b > Len(text) THEN [ok |-> FALSE]
                  ELSE [ok |-> TRUE,
                        value |-> SubSeq(text, nameStart, q - 1),
                        last |-> b]

(* text.split("\n") *)
RECURSIVE SplitFrom(_, _, _)
SplitFrom(text, i, cur) ==
  IF i > Len(text) THEN <<cur>>
  ELSE IF text[i] = NL THEN <<cur>> \o SplitFrom(text, i + 1, <<>>)
  ELSE SplitFrom(text, i + 1, Append(cur, text[i]))

Split(text) == SplitFrom(text, 1, <<>>)

(* line.includes(matchValue) *)
Includes(line, value) ==
  \E i \in 1..(Len(line) + 1) : HasAt(line, i, value)

(* lines.findIndex(line => line.includes(matchValue)), 0-based, -1 if none *)
FindIndex(lines, value) ==
  IF \E k \in 1..Len(lines) : Includes(lines[k], value)
  THEN (CHOOSE k \in 1..Len(lines) :
          /\ Includes(lines[k], value)
          /\ \A j \in 1..(k - 1) : ~Includes(lines[j], value)) - 1
  ELSE -1

(* the while loop over regexPattern.exec(text): the matches in source order,
   each with the line found for its name; threw = the TypeError of
   lines[-1].length when no line contains the name *)
RECURSIVE ScanFrom(_, _, _)
ScanFrom(text, i, acc) ==
  IF i > Len(text) THEN [threw |-> FALSE, tests |-> acc]
  ELSE LET m == MatchAt(text, i)
       IN IF ~m.ok THEN ScanFrom(text, i + 1, acc)
          ELSE LET lines == Split(text)
                   lineNumber == FindIndex(lines, m.value)
               IN IF lineNumber = -1 THEN [threw |-> TRUE, tests |-> acc]
                  ELSE ScanFrom(text, m.last + 1,
                         Append(acc, [name |-> m.value,
                                      lineNumber |-> lineNumber,
                                      lineLength |-> Len(lines[lineNumber + 1])]))

parseWingFile(text) == ScanFrom(text, 1, <<>>)

(***************************************************************************)
(* Bounds of the model.                                                    *)
(***************************************************************************)
MaxCalls == 2      \* calls of createTestItemFromFile explored
MaxRuns == 1       \* test runs created
MaxFrags == 5      \* fragments of a text given to the Extractor alone
MaxInclude == 1    \* nodes in the inclusion set of a run request
MaxExclude == 1    \* nodes in the exclusion set of a run request
MaxContinuous == 1 \* continuous-mode run requests made
MaxTests == 2      \* tests in the tree when the first run is requested
MaxResolves == 1   \* calls of resolveHandler on a file item

FileSeq == <<"f1", "f2">>
Files == {FileSeq[i] : i \in 1..Len(FileSeq)}

(* contents a tracked file can have on disk *)
DeclA == KW \o <<"a">> \o QB \o <<"x">> \o RB
DeclB == KW \o <<"b">> \o QB \o <<"x">> \o RB
Texts == << <<" ">>,
           DeclA,
           <<NL>> \o DeclA \o <<NL>> \o DeclB >>

TextIds == 1..Len(Texts)

VARIABLES
  grouped,            \* TRUE: extension.ts 326-633, FALSE: extension.ts 1-324
  fs,                 \* file -> index into Texts, 0 when it does not exist
  generationCounter,  \* testTree: let generationCounter
  rootItems,          \* testController.items: file -> file item or NoItem
  wsChildren,         \* children of the workspace item: file -> file item or NoItem
  handlers,           \* createTestItemFromFile calls in flight
  microtasks,         \* promise jobs not yet run, in FIFO order
  passes,             \* history: the reconciliation passes made so far
  listeners,          \* continuous-mode requests: listeners of fileChangedEmitter
  runs,               \* the test runs created by startTestRun; flagAt (the
                      \* flag each exec read) and cancelSeen (the state of
                      \* each exec when the flag was set), exit (how the
                      \* process of each exec returned) and verdictAt (the
                      \* entry of the verdict map read for it) and shownAt
                      \* (the generation of the node that the tree showed
                      \* for the id of the test when its result was
                      \* reported, -1 for no node, -2 before) are history
  ptext,              \* a text given to the Extractor alone
  pres,               \* what the Extractor and the Reconciler made of ptext
  resolveCalls        \* history: the calls of resolveHandler on a file item

vars == <<grouped, fs, generationCounter, rootItems, wsChildren, handlers,
          microtasks, passes, listeners, runs, ptext, pres, resolveCalls>>

Exists(f) == fs[f] # 0

(* getContentFromFilesystem: the decoded content, "" when readFile throws *)
getContentFromFilesystem(f) == IF Exists(f) THEN Texts[fs[f]] ELSE <<>>

(* the mutant of TestItem: every test takes a generation of its own *)
TestItem_PerTest(f, testCase, thisGeneration) ==
  [kind |-> "test", uri |-> f, name |-> testCase.name,
   lineNumber |-> testCase.lineNumber, lineLength |-> testCase.lineLength,
   generation |-> thisGeneration + testCase.lineNumber]

(* controller.createTestItem(id, testCase.name, item.uri) with its range and
   testData.set(testItem, new TestCase(thisGeneration)) *)
TestItem(f, testCase, thisGeneration) ==
  [kind |-> "test", uri |-> f, name |-> testCase.name,
   lineNumber |-> testCase.lineNumber, lineLength |-> testCase.lineLength,
   generation |-> thisGeneration]

(* the mutant of ChildrenAdd: the item is added beside one with the same id *)
ChildrenAdd_Append(children, testItem) == Append(children, testItem)

(* item.children.add(testItem): an item with the same id is replaced *)
ChildrenAdd(children, testItem) ==
  IF \E i \in 1..Len(children) : children[i].name = testItem.name
  THEN [i \in 1..Len(children) |->
          IF children[i].name = testItem.name THEN testItem ELSE children[i]]
  ELSE Append(children, testItem)

(* the for loop of updateFromContents over testCases *)
RECURSIVE AddTestCases(_, _, _, _)
AddTestCases(children, f, testCases, thisGeneration) ==
  IF testCases = <<>> THEN children
  ELSE AddTestCases(ChildrenAdd(children, TestItem(f, Head(testCases), thisGeneration)),
                    f, Tail(testCases), thisGeneration)

(* the mutant of HasTestsAfter: the flag is left as it was *)
HasTestsAfter_Kept(hasTests, testCases) == hasTests

(* if (testCases.length === 0) this.hasTests = false *)
HasTestsAfter(hasTests, testCases) ==
  IF Len(testCases) = 0 THEN FALSE ELSE hasTests

(* the file item a createTestItemFromFile call builds; data is the WingFile
   that testFileStore holds for it (extension.ts 537) *)
FileItem(h) ==
  [kind |-> "file", uri |-> h.uri, generation |-> h.generation,
   children |-> h.children, error |-> h.error,
   data |-> [hasTests |-> h.hasTests, didResolve |-> h.didResolve]]

WorkspaceItem == [kind |-> "workspace"]
NoItem == [kind |-> "none"]

NoHandler == [phase |-> "free"]

InFlight == {i \in 1..Len(handlers) : handlers[i].phase # "free"}

(* wingFileFromUri(uri); controller.createTestItem(...);
   wingFile.updateFromDisk(...) up to its await of the file read.  error is
   testItem.error being set: only the catch of updateFromDisk sets it, and
   getContentFromFilesystem, which catches the failure of readFile itself,
   never throws into it *)
NewHandler(f, kind) ==
  [phase |-> "reading", uri |-> f, kind |-> kind, content |-> 0,
   hasTests |-> TRUE, didResolve |-> FALSE, generation |-> -1,
   testCases |-> <<>>, threw |-> FALSE, children |-> <<>>, listener |-> 0,
   error |-> FALSE, item |-> NoItem]

ChangeInFlight == Cardinality({i \in InFlight : handlers[i].kind = "change"})
ListenerInFlight == Cardinality({i \in InFlight : handlers[i].kind = "listener"})
ActiveListeners == {i \in 1..Len(listeners) : listeners[i].active}

(* what may be started now so that every reconciliation pass and every run
   it leads to stays within MaxCalls and MaxRuns: newPlain calls of
   createTestItemFromFile, newChange change events (each fires the listeners
   when its call has finished), newListeners continuous requests, newRuns runs *)
Budget(newPlain, newChange, newListeners, newRuns) ==
  LET fired == (ChangeInFlight + newChange) * (Len(listeners) + newListeners)
  IN /\ Len(handlers) + newPlain + newChange + fired <= MaxCalls
     /\ Len(runs) + ListenerInFlight + fired + newRuns <= MaxRuns

TreeUnchanged == UNCHANGED <<rootItems, wsChildren>>
PureUnchanged == UNCHANGED <<ptext, pres>>
RunsUnchanged == UNCHANGED <<listeners, runs>>

(* start createTestItemFromFile for the files of fileSeq, in order *)
RECURSIVE StartAll(_, _, _, _)
StartAll(hs, fileSeq, kind, listener) ==
  IF fileSeq = <<>> THEN hs
  ELSE StartAll(Append(hs, [NewHandler(Head(fileSeq), kind) EXCEPT !.listener = listener]),
                Tail(fileSeq), kind, listener)

(* fileChangedEmitter.fire(uri): every subscribed listener starts
   createTestItemFromFile for the file (runHandler, the event callback) *)
RECURSIVE Fire(_, _, _)
Fire(hs, f, l) ==
  IF l > Len(listeners) THEN hs
  ELSE Fire(IF listeners[l].active THEN StartAll(hs, <<f>>, "listener", l) ELSE hs,
            f, l + 1)

(* history: the firings of fileChangedEmitter each subscribed listener got *)
Fired(ls) ==
  [l \in 1..Len(ls) |->
     IF ls[l].active THEN [ls[l] EXCEPT !.fired = @ + 1] ELSE ls[l]]

(* the file system serves the read of vscode.workspace.fs.readFile *)
ReadExec(h) ==
  /\ microtasks = <<>>
  /\ handlers[h].phase = "reading"
  /\ handlers' = [handlers EXCEPT ![h].phase = "fetched",
                                  ![h].content = fs[handlers[h].uri]]
  /\ UNCHANGED <<resolveCalls, grouped, fs, generationCounter, microtasks, passes>>
  /\ TreeUnchanged /\ PureUnchanged /\ RunsUnchanged

HandlerText(h) == IF h.content = 0 THEN <<>> ELSE Texts[h.content]

(* the mutant of AfterReadText: the children are stamped with a generation
   that does not come from the counter *)
AfterReadText_Stale(d, content, counter) ==
  LET parsed == parseWingFile(content)
  IN [d EXCEPT !.phase = "resolved",
               !.generation = 0,
               !.didResolve = TRUE,
               !.testCases = parsed.tests,
               !.threw = parsed.threw]

(* updateFromDisk after its await (part_000 58-59) and updateFromContents up
   to its await of getTests (part_000 76-79), for the WingFile of call d *)
AfterReadText(d, content, counter) ==
  LET parsed == parseWingFile(content)
  IN [d EXCEPT !.phase = "resolved",
               !.generation = counter,
               !.didResolve = TRUE,
               !.testCases = parsed.tests,
               !.threw = parsed.threw]

AfterRead(d, counter) == AfterReadText(d, HandlerText(d), counter)

(* the rest of updateFromContents (part_000 80-91); when getTests rejected,
   the function ends with a rejected promise that nobody awaits *)
AfterContents(d) ==
  IF d.threw THEN [d EXCEPT !.phase = "contents"]
  ELSE [d EXCEPT !.phase = "contents",
                 !.hasTests = HasTestsAfter(d.hasTests, d.testCases),
                 !.children = AddTestCases(d.children, d.uri, d.testCases, d.generation)]

Pass(d) ==
  [generation |-> d.generation, uri |-> d.uri, content |-> d.content,
   children |-> d.children]

(* the mutant of ReadDone: the caller of updateFromDisk resumes before the
   rest of updateFromContents *)
ReadDone_CallerFirst(h) ==
  /\ microtasks = <<>>
  /\ handlers[h].phase = "fetched"
  /\ handlers' = [handlers EXCEPT ![h] = AfterRead(handlers[h], generationCounter)]
  /\ generationCounter' = generationCounter + 1
  /\ microtasks' = <<[job |-> "createTestItemFromFile", h |-> h]>>
  /\ UNCHANGED <<resolveCalls, grouped, fs, passes>>
  /\ TreeUnchanged /\ PureUnchanged /\ RunsUnchanged

(* updateFromDisk resumes after its await and calls updateFromContents, which
   runs up to its await of getTests; updateFromDisk then returns without
   awaiting it.  Two promise jobs are queued, in this order: the rest of
   updateFromContents, then the rest of createTestItemFromFile. *)
ReadDone(h) ==
  /\ microtasks = <<>>
  /\ handlers[h].phase = "fetched"
  /\ handlers' = [handlers EXCEPT ![h] = AfterRead(handlers[h], generationCounter)]
  /\ generationCounter' = generationCounter + 1
  /\ microtasks' = <<[job |-> "updateFromContents", h |-> h]>>
                     \o (IF handlers[h].kind = "resolve" THEN <<>>
                         ELSE <<[job |-> "createTestItemFromFile", h |-> h]>>)
  /\ UNCHANGED <<resolveCalls, grouped, fs, passes>>
  /\ TreeUnchanged /\ PureUnchanged /\ RunsUnchanged

(* updateFromContents has run on the item that resolveHandler was called
   with: the children were added to that item, wherever it is *)
Resolved(coll, d) ==
  [f \in Files |->
     IF f = d.uri /\ coll[f] = d.item
     THEN [d.item EXCEPT !.children = d.children,
                         !.data = [hasTests |-> d.hasTests, didResolve |-> d.didResolve]]
     ELSE coll[f]]

updateFromContents ==
  /\ microtasks # <<>>
  /\ Head(microtasks).job = "updateFromContents"
  /\ LET h == Head(microtasks).h
         d == AfterContents(handlers[h])
     IN /\ handlers' = [handlers EXCEPT ![h] = IF d.kind = "resolve" THEN NoHandler ELSE d]
        /\ passes' = Append(passes, Pass(d))
        /\ IF d.kind = "resolve"
           THEN /\ rootItems' = Resolved(rootItems, d)
                /\ wsChildren' = Resolved(wsChildren, d)
           ELSE TreeUnchanged
  /\ microtasks' = Tail(microtasks)
  /\ UNCHANGED <<resolveCalls, grouped, fs, generationCounter>>
  /\ PureUnchanged /\ RunsUnchanged

(* the rest of createTestItemFromFile after its await of updateFromDisk:
   extension.ts 526-540 (grouped) and 245-253 (ungrouped) *)
createTestItemFromFile ==
  /\ microtasks # <<>>
  /\ Head(microtasks).job = "createTestItemFromFile"
  /\ LET h == Head(microtasks).h
         d == handlers[h]
         vscodeTestItem == FileItem(d)
     IN /\ IF d.hasTests
           THEN IF grouped
                THEN /\ wsChildren' = [wsChildren EXCEPT ![d.uri] = vscodeTestItem]
                     /\ UNCHANGED rootItems
                ELSE /\ rootItems' = [rootItems EXCEPT ![d.uri] = vscodeTestItem]
                     /\ UNCHANGED wsChildren
           ELSE /\ rootItems' = [rootItems EXCEPT ![d.uri] = NoItem]
                /\ UNCHANGED wsChildren
        /\ IF d.kind \in {"plain", "create"}
           THEN /\ handlers' = [handlers EXCEPT ![h] = NoHandler]
                /\ microtasks' = Tail(microtasks)
           ELSE /\ handlers' = [handlers EXCEPT ![h].phase = "returned"]
                /\ microtasks' = Append(Tail(microtasks),
                     [job |-> IF d.kind = "change" THEN "onDidChange" ELSE "startTestRun",
                      h |-> h])
  /\ UNCHANGED <<resolveCalls, grouped, fs, generationCounter, passes>>
  /\ PureUnchanged /\ RunsUnchanged

(* the rest of the onDidChange callback: data.didResolve holds, so the second
   updateFromDisk returns at once; then fileChangedEmitter.fire(uri) *)
onDidChangeFire ==
  /\ microtasks # <<>>
  /\ Head(microtasks).job = "onDidChange"
  /\ LET h == Head(microtasks).h
         d == handlers[h]
     IN handlers' = Fire([handlers EXCEPT ![h] = NoHandler], d.uri, 1)
  /\ listeners' = Fired(listeners)
  /\ microtasks' = Tail(microtasks)
  /\ UNCHANGED <<resolveCalls, grouped, fs, generationCounter, passes, runs>>
  /\ TreeUnchanged /\ PureUnchanged

(* watcher.onDidCreate: createTestItemFromFile is not awaited, the listeners
   are fired at once *)
onDidCreate(f, t) ==
  /\ microtasks = <<>>
  /\ ~Exists(f)
  /\ Budget(1 + Cardinality(ActiveListeners), 0, 0, Cardinality(ActiveListeners))
  /\ fs' = [fs EXCEPT ![f] = t]
  /\ handlers' = Fire(StartAll(handlers, <<f>>, "create", 0), f, 1)
  /\ listeners' = Fired(listeners)
  /\ UNCHANGED <<resolveCalls, grouped, generationCounter, microtasks, passes, runs>>
  /\ TreeUnchanged /\ PureUnchanged

(* watcher.onDidChange up to its await of createTestItemFromFile *)
onDidChange(f, t) ==
  /\ microtasks = <<>>
  /\ Exists(f)
  /\ Budget(0, 1, 0, 0)
  /\ fs' = [fs EXCEPT ![f] = t]
  /\ handlers' = StartAll(handlers, <<f>>, "change", 0)
  /\ UNCHANGED <<resolveCalls, grouped, generationCounter, microtasks, passes>>
  /\ TreeUnchanged /\ PureUnchanged /\ RunsUnchanged

(* the mutant of onDidDelete: the node is deleted from the root collection
   whether or not the workspace item exists *)
onDidDelete_Root(f) ==
  /\ microtasks = <<>>
  /\ Exists(f)
  /\ fs' = [fs EXCEPT ![f] = 0]
  /\ rootItems' = [rootItems EXCEPT ![f] = NoItem]
  /\ UNCHANGED wsChildren
  /\ UNCHANGED <<resolveCalls, grouped, generationCounter, handlers, microtasks, passes>>
  /\ PureUnchanged /\ RunsUnchanged

(* the mutant of onDidDelete: the collection that holds the node is cleared *)
onDidDelete_All(f) ==
  /\ microtasks = <<>>
  /\ Exists(f)
  /\ fs' = [fs EXCEPT ![f] = 0]
  /\ IF grouped
     THEN /\ wsChildren' = [g \in Files |-> NoItem]
          /\ UNCHANGED rootItems
     ELSE /\ rootItems' = [g \in Files |-> NoItem]
          /\ UNCHANGED wsChildren
  /\ UNCHANGED <<resolveCalls, grouped, generationCounter, handlers, microtasks, passes>>
  /\ PureUnchanged /\ RunsUnchanged

(* watcher.onDidDelete: extension.ts 620-629 (grouped) and 319 (ungrouped) *)
onDidDelete(f) ==
  /\ microtasks = <<>>
  /\ Exists(f)
  /\ fs' = [fs EXCEPT ![f] = 0]
  /\ IF grouped
     THEN /\ wsChildren' = [wsChildren EXCEPT ![f] = NoItem]
          /\ UNCHANGED rootItems
     ELSE /\ rootItems' = [rootItems EXCEPT ![f] = NoItem]
          /\ UNCHANGED wsChildren
  /\ UNCHANGED <<resolveCalls, grouped, generationCounter, handlers, microtasks, passes>>
  /\ PureUnchanged /\ RunsUnchanged

ExistingFiles ==
  LET E(f) == Exists(f) IN SelectSeq(FileSeq, E)

(* findTestFilesInWorkspace after its await of findFiles: the initial
   discovery of activate and the refresh handler *)
findTestFilesInWorkspace ==
  /\ microtasks = <<>>
  /\ ExistingFiles # <<>>
  /\ Budget(Len(ExistingFiles), 0, 0, 0)
  /\ handlers' = StartAll(handlers, ExistingFiles, "plain", 0)
  /\ UNCHANGED <<resolveCalls, grouped, fs, generationCounter, microtasks, passes>>
  /\ TreeUnchanged /\ PureUnchanged /\ RunsUnchanged

(* onDidOpenTextDocument / onDidChangeTextDocument of the ungrouped revision *)
onDidOpenTextDocument(f) ==
  /\ microtasks = <<>>
  /\ ~grouped
  /\ Exists(f)
  /\ Budget(1, 0, 0, 0)
  /\ handlers' = StartAll(handlers, <<f>>, "plain", 0)
  /\ UNCHANGED <<resolveCalls, grouped, fs, generationCounter, microtasks, passes>>
  /\ TreeUnchanged /\ PureUnchanged /\ RunsUnchanged

(* the file item that the tree shows for f *)
ItemOf(f) == IF grouped THEN wsChildren[f] ELSE rootItems[f]

(* updateFromDisk(item) called by resolveHandler, up to its await of the
   file read: the WingFile is the one of the item *)
ResolveCall(item) ==
  [NewHandler(item.uri, "resolve") EXCEPT !.item = item,
                                          !.children = item.children,
                                          !.hasTests = item.data.hasTests]

(* the mutant of resolveHandler: updateFromDisk does not look at didResolve *)
resolveHandler_Always(f) ==
  /\ microtasks = <<>>
  /\ resolveCalls < MaxResolves
  /\ ItemOf(f).kind = "file"
  /\ Len(handlers) < MaxCalls
  /\ handlers' = Append(handlers, ResolveCall(ItemOf(f)))
  /\ resolveCalls' = resolveCalls + 1
  /\ UNCHANGED <<grouped, fs, generationCounter, microtasks, passes>>
  /\ TreeUnchanged /\ PureUnchanged /\ RunsUnchanged

(* testController.resolveHandler(item) for a file item of the tree:
   data.updateFromDisk(item, testController), which returns at once when
   data.didResolve is set (part_000 53-55) *)
resolveHandler(f) ==
  /\ microtasks = <<>>
  /\ resolveCalls < MaxResolves
  /\ ItemOf(f).kind = "file"
  /\ IF ItemOf(f).data.didResolve
     THEN UNCHANGED handlers
     ELSE /\ Len(handlers) < MaxCalls
          /\ handlers' = Append(handlers, ResolveCall(ItemOf(f)))
  /\ resolveCalls' = resolveCalls + 1
  /\ UNCHANGED <<grouped, fs, generationCounter, microtasks, passes>>
  /\ TreeUnchanged /\ PureUnchanged /\ RunsUnchanged

(***************************************************************************)
(* Run orchestrator: startTestRun, runHandler, TestCase.run.               *)
(***************************************************************************)

(* the items of a collection that holds file items, in the order of FileSeq
   (the order among files is not modelled) *)
FileItemsOf(coll) ==
  LET P(f) == coll[f].kind # "none"
      fsq == SelectSeq(FileSeq, P)
  IN [i \in 1..Len(fsq) |-> coll[fsq[i]]]

(* gatherTestItems(testController.items) *)
RootItemSeq ==
  (IF grouped THEN <<WorkspaceItem>> ELSE <<>>) \o FileItemsOf(rootItems)

(* the mutant of gatherTestItems: the children of a workspace item are not
   gathered *)
gatherTestItems_Flat(test) ==
  IF test.kind = "file" THEN test.children ELSE <<>>

(* gatherTestItems(test.children) *)
gatherTestItems(test) ==
  IF test.kind = "workspace" THEN FileItemsOf(wsChildren)
  ELSE IF test.kind = "file" THEN test.children
  ELSE <<>>

(* discoverTests: the queue, in the order in which the tests are pushed.
   depth bounds the recursion: workspace, file, test *)
RECURSIVE discoverTests(_, _)
discoverTests(tests, exclude) ==
  IF tests = <<>> THEN <<>>
  ELSE LET test == Head(tests)
       IN (IF test \in exclude THEN <<>>
           ELSE IF test.kind = "test" THEN <<test>>
           ELSE discoverTests(gatherTestItems(test), exclude))
          \o discoverTests(Tail(tests), exclude)

(* the uris whose content discoverTests of the ungrouped revision reads for
   coveredLines, in the order of the reads (extension.ts 163-181) *)
RECURSIVE VisitedUris(_, _)
VisitedUris(tests, exclude) ==
  IF tests = <<>> THEN <<>>
  ELSE LET test == Head(tests)
       IN (IF test \in exclude THEN <<>>
           ELSE (IF test.kind = "test" THEN <<>>
                 ELSE VisitedUris(gatherTestItems(test), exclude))
                \o (IF test.kind = "workspace" THEN <<>> ELSE <<test.uri>>))
          \o VisitedUris(Tail(tests), exclude)

RECURSIVE Dedupe(_)
Dedupe(sq) ==
  IF sq = <<>> THEN <<>>
  ELSE LET rest == Dedupe(SubSeq(sq, 1, Len(sq) - 1))
           x == sq[Len(sq)]
       IN IF \E i \in 1..Len(rest) : rest[i] = x THEN rest ELSE Append(rest, x)

(* line.trim().length = 0 *)
IsBlank(line) == \A i \in 1..Len(line) : line[i] = " "

(* lines.map(...): a StatementCoverage counter (0) for a line with text,
   undefined (-1) for a blank line *)
CoverageOf(text) ==
  LET lines == Split(text)
  IN [i \in 1..Len(lines) |-> IF IsBlank(lines[i]) THEN -1 ELSE 0]

NoCoverage == [f \in Files |-> [has |-> FALSE, lines |-> <<>>]]

(* the mutant of NewRun: discoverTests pushes the tests without reporting
   them enqueued *)
NewRun_Silent(origin, hasInclude, include, exclude) ==
  LET tests == IF hasInclude THEN include ELSE RootItemSeq
      queue == discoverTests(tests, exclude)
      todo == IF grouped THEN <<>> ELSE Dedupe(VisitedUris(tests, exclude))
  IN [origin |-> origin, hasInclude |-> hasInclude, include |-> include,
      exclude |-> exclude, cancelled |-> FALSE,
      phase |-> IF todo = <<>> THEN "queued" ELSE "discovering",
      queue |-> queue,
      st |-> [i \in 1..Len(queue) |-> "queued"],
      reports |-> [i \in 1..Len(queue) |-> <<>>],
      flagAt |-> [i \in 1..Len(queue) |-> "unchecked"],
      cancelSeen |-> [i \in 1..Len(queue) |-> "none"],
      exit |-> [i \in 1..Len(queue) |-> "none"],
      verdictAt |-> [i \in 1..Len(queue) |-> "none"],
      shownAt |-> [i \in 1..Len(queue) |-> -2],
      ended |-> FALSE,
      coveredLines |-> NoCoverage,
      covTodo |-> todo,
      treeAt |-> [rootItems |-> rootItems, wsChildren |-> wsChildren]]

(* startTestRun up to the end of discoverTests; in the ungrouped revision
   the reads for coveredLines are still to come *)
NewRun(origin, hasInclude, include, exclude) ==
  LET tests == IF hasInclude THEN include ELSE RootItemSeq
      queue == discoverTests(tests, exclude)
      todo == IF grouped THEN <<>> ELSE Dedupe(VisitedUris(tests, exclude))
  IN [origin |-> origin, hasInclude |-> hasInclude, include |-> include,
      exclude |-> exclude, cancelled |-> FALSE,
      phase |-> IF todo = <<>> THEN "queued" ELSE "discovering",
      queue |-> queue,
      st |-> [i \in 1..Len(queue) |-> "queued"],
      reports |-> [i \in 1..Len(queue) |-> <<"enqueued">>],
      flagAt |-> [i \in 1..Len(queue) |-> "unchecked"],
      cancelSeen |-> [i \in 1..Len(queue) |-> "none"],
      exit |-> [i \in 1..Len(queue) |-> "none"],
      verdictAt |-> [i \in 1..Len(queue) |-> "none"],
      shownAt |-> [i \in 1..Len(queue) |-> -2],
      ended |-> FALSE,
      coveredLines |-> NoCoverage,
      covTodo |-> todo,
      treeAt |-> [rootItems |-> rootItems, wsChildren |-> wsChildren]]

(* the nodes of the tree, parents before children *)
RECURSIVE WalkNodes(_)
WalkNodes(tests) ==
  IF tests = <<>> THEN <<>>
  ELSE <<Head(tests)>> \o WalkNodes(gatherTestItems(Head(tests)))
       \o WalkNodes(Tail(tests))

(* the nodes of the tree a request can name *)
TreeNodes ==
  LET all == WalkNodes(RootItemSeq) IN {all[i] : i \in 1..Len(all)}

SubsetsUpTo(S, n) == {T \in SUBSET S : Cardinality(T) <= n}

(* a set of nodes as the array of a request *)
NodeSeq(S) ==
  LET In(n) == n \in S IN SelectSeq(WalkNodes(RootItemSeq), In)

SetRun(r, rec) == runs' = [runs EXCEPT ![r] = rec]

(* runHandler with request.continuous unset: startTestRun(request) *)
runHandler(include, exclude) ==
  /\ microtasks = <<>>
  /\ Budget(0, 0, 0, 1)
  /\ runs' = Append(runs, NewRun(0, include # {}, NodeSeq(include), exclude))
  /\ UNCHANGED <<resolveCalls, grouped, fs, generationCounter, handlers, microtasks, passes,
                 listeners>>
  /\ TreeUnchanged /\ PureUnchanged

(* runHandler with request.continuous set: subscribe to fileChangedEmitter *)
runHandlerContinuous(exclude) ==
  /\ microtasks = <<>>
  /\ Len(listeners) < MaxContinuous
  /\ Budget(0, 0, 1, 0)
  /\ listeners' = Append(listeners, [active |-> TRUE, exclude |-> exclude,
                                      fired |-> 0])
  /\ UNCHANGED <<resolveCalls, grouped, fs, generationCounter, handlers, microtasks, passes,
                 runs>>
  /\ TreeUnchanged /\ PureUnchanged

(* cancellation.onCancellationRequested(() => l.dispose()) *)
cancelContinuous(l) ==
  /\ microtasks = <<>>
  /\ l \in ActiveListeners
  /\ listeners' = [listeners EXCEPT ![l].active = FALSE]
  /\ UNCHANGED <<resolveCalls, grouped, fs, generationCounter, handlers, microtasks, passes,
                 runs>>
  /\ TreeUnchanged /\ PureUnchanged

(* the mutant of startTestRunContinuous: the run is started for the request
   of the subscription, without inclusion set *)
startTestRunContinuous_All ==
  /\ microtasks # <<>>
  /\ Head(microtasks).job = "startTestRun"
  /\ LET h == Head(microtasks).h
         d == handlers[h]
     IN /\ runs' = Append(runs, NewRun(d.listener, FALSE, <<>>, {}))
        /\ handlers' = [handlers EXCEPT ![h] = NoHandler]
  /\ microtasks' = Tail(microtasks)
  /\ UNCHANGED <<resolveCalls, grouped, fs, generationCounter, passes, listeners>>
  /\ TreeUnchanged /\ PureUnchanged

(* the rest of the listener of runHandler after its await of
   createTestItemFromFile: startTestRun(new TestRunRequest2([file], undefined, ...)) *)
startTestRunContinuous ==
  /\ microtasks # <<>>
  /\ Head(microtasks).job = "startTestRun"
  /\ LET h == Head(microtasks).h
         d == handlers[h]
     IN /\ runs' = Append(runs, NewRun(d.listener, TRUE, <<FileItem(d)>>, {}))
        /\ handlers' = [handlers EXCEPT ![h] = NoHandler]
  /\ microtasks' = Tail(microtasks)
  /\ UNCHANGED <<resolveCalls, grouped, fs, generationCounter, passes, listeners>>
  /\ TreeUnchanged /\ PureUnchanged

(* the host sets testRun.token.isCancellationRequested *)
cancelRun(r) ==
  /\ microtasks = <<>>
  /\ r \in 1..Len(runs)
  /\ ~runs[r].cancelled
  /\ runs[r].phase \in {"discovering", "queued", "running"}
  /\ SetRun(r, [runs[r] EXCEPT !.cancelled = TRUE, !.cancelSeen = runs[r].st])
  /\ UNCHANGED <<resolveCalls, grouped, fs, generationCounter, handlers, microtasks, passes,
                 listeners>>
  /\ TreeUnchanged /\ PureUnchanged

(* discoverTests of the ungrouped revision resumes after one await of
   getContentFromFilesystem: coveredLines.set(uri, lines.map(...)) *)
coverageRead(r) ==
  /\ microtasks = <<>>
  /\ r \in 1..Len(runs)
  /\ runs[r].phase = "discovering"
  /\ LET f == Head(runs[r].covTodo)
         rest == Tail(runs[r].covTodo)
     IN SetRun(r, [runs[r] EXCEPT
          !.coveredLines[f] = [has |-> TRUE,
                               lines |-> CoverageOf(getContentFromFilesystem(f))],
          !.covTodo = rest,
          !.phase = IF rest = <<>> THEN "queued" ELSE "discovering"])
  /\ UNCHANGED <<resolveCalls, grouped, fs, generationCounter, handlers, microtasks, passes,
                 listeners>>
  /\ TreeUnchanged /\ PureUnchanged

(* the mutant of CoverageStep: exec writes back the array it was given at
   the start of the run with its own line incremented, so the increments of
   the other invocations are lost *)
CoverageStep_Lost(coveredLines, test) ==
  LET fileCoverage == coveredLines[test.uri]
      lineNo == test.lineNumber
  IN IF ~fileCoverage.has THEN [threw |-> FALSE, coveredLines |-> coveredLines]
     ELSE IF lineNo + 1 > Len(fileCoverage.lines)
          THEN [threw |-> TRUE, coveredLines |-> coveredLines]
     ELSE IF fileCoverage.lines[lineNo + 1] = -1
          THEN [threw |-> TRUE, coveredLines |-> coveredLines]
     ELSE [threw |-> FALSE,
           coveredLines |->
             [coveredLines EXCEPT ![test.uri].lines =
                [k \in 1..Len(fileCoverage.lines) |->
                   IF k = lineNo + 1 THEN 1
                   ELSE IF fileCoverage.lines[k] = -1 THEN -1 ELSE 0]]]

(* exec of runTestQueue after the test: fileCoverage[lineNo]!.executionCount++
   throws a TypeError when coveredLines has an array for the file whose entry
   lineNo is undefined (blank line) or missing (shorter file) *)
CoverageStep(coveredLines, test) ==
  LET fileCoverage == coveredLines[test.uri]
      lineNo == test.lineNumber
  IN IF ~fileCoverage.has THEN [threw |-> FALSE, coveredLines |-> coveredLines]
     ELSE IF lineNo + 1 > Len(fileCoverage.lines)
          THEN [threw |-> TRUE, coveredLines |-> coveredLines]
     ELSE IF fileCoverage.lines[lineNo + 1] = -1
          THEN [threw |-> TRUE, coveredLines |-> coveredLines]
     ELSE [threw |-> FALSE,
           coveredLines |-> [coveredLines EXCEPT ![test.uri].lines[lineNo + 1] = @ + 1]]

(* await Promise.all(queue.map(exec)); testRun.end(): the run is ended when
   every exec has completed; one exec that throws rejects Promise.all and
   testRun.end() is never reached *)
Settle(rec) ==
  IF rec.phase \notin {"queued", "running"} THEN rec
  ELSE IF \E i \in 1..Len(rec.queue) : rec.st[i] = "threw"
       THEN [rec EXCEPT !.phase = "rejected"]
  ELSE IF \A i \in 1..Len(rec.queue) : rec.st[i] = "completed"
       THEN [rec EXCEPT !.phase = "ended", !.ended = TRUE]
  ELSE [rec EXCEPT !.phase = "running"]

(* the mutant of ExecStart: exec does not read the flag *)
ExecStart_NoCheck(rec, i) ==
  [rec EXCEPT !.reports[i] = Append(@, "started"),
              !.flagAt[i] = IF rec.cancelled THEN "set" ELSE "clear",
              !.st[i] = "running"]

(* the mutant of ExecStart: the test is run although it was reported skipped *)
ExecStart_NoElse(rec, i) ==
  IF rec.cancelled
  THEN [rec EXCEPT !.reports[i] = Append(@, "skipped"),
                   !.flagAt[i] = "set",
                   !.st[i] = "running"]
  ELSE [rec EXCEPT !.reports[i] = Append(@, "started"),
                   !.flagAt[i] = "clear",
                   !.st[i] = "running"]

(* exec(test) for the i-th entry of the queue up to its first await *)
ExecStart(rec, i) ==
  LET test == rec.queue[i]
  IN IF rec.cancelled
     THEN LET c == CoverageStep(rec.coveredLines, test)
          IN [rec EXCEPT !.reports[i] = Append(@, "skipped"),
                         !.flagAt[i] = "set",
                         !.st[i] = IF c.threw THEN "threw" ELSE "completed",
                         !.coveredLines = c.coveredLines]
     ELSE [rec EXCEPT !.reports[i] = Append(@, "started"),
                      !.flagAt[i] = "clear",
                      !.st[i] = "running"]

(* the mutant of ExecFrom: one exec is started at a time *)
ExecFrom_One(rec, i) ==
  IF i > Len(rec.queue) THEN rec ELSE ExecStart(rec, i)

(* queue.map(exec): exec is called for the entries from i on, one after the
   other, each up to its first await *)
RECURSIVE ExecFrom(_, _)
ExecFrom(rec, i) ==
  IF i > Len(rec.queue) THEN rec ELSE ExecFrom(ExecStart(rec, i), i + 1)

(* runTestQueue: queue.map(exec) runs every exec up to its first await *)
runTestQueue(r) ==
  /\ microtasks = <<>>
  /\ r \in 1..Len(runs)
  /\ runs[r].phase = "queued"
  /\ SetRun(r, Settle(ExecFrom(runs[r], 1)))
  /\ UNCHANGED <<resolveCalls, grouped, fs, generationCounter, handlers, microtasks, passes,
                 listeners>>
  /\ TreeUnchanged /\ PureUnchanged

(* the mutant of executeShellCommandPromise: the last resolve settles the
   promise *)
executeShellCommandPromise_Last(error) ==
  LET resolves == (IF error THEN <<[success |-> FALSE]>> ELSE <<>>)
                  \o <<[success |-> TRUE]>>
  IN resolves[Len(resolves)]

(* executeShellCommandPromise: the callback of child_process.exec resolves
   the promise with the failure when error is set and then, in both cases,
   with the success; the first resolve settles the promise *)
executeShellCommandPromise(error) ==
  LET resolves == (IF error THEN <<[success |-> FALSE]>> ELSE <<>>)
                  \o <<[success |-> TRUE]>>
  IN Head(resolves)

(* the mutant of TestCaseRun: a test is reported skipped when the flag is
   found set after its process has returned *)
TestCaseRun_Interrupted(exe, verdict) ==
  IF \E r \in 1..Len(runs) : runs[r].cancelled THEN "skipped"
  ELSE IF exe.success THEN "passed"
  ELSE IF grouped
       THEN IF verdict = "pass" THEN "passed" ELSE "failed"
       ELSE IF verdict = "fail" THEN "failed" ELSE "passed"

(* TestCase.run after its await: the state reported for the test; verdict is
   errorPerTest[testItem.label].  part_000 163-196 for the grouped revision,
   package.json 236-283 for the ungrouped one *)
TestCaseRun(exe, verdict) ==
  IF exe.success THEN "passed"
  ELSE IF grouped
       THEN IF verdict = "pass" THEN "passed" ELSE "failed"
       ELSE IF verdict = "fail" THEN "failed" ELSE "passed"

Verdicts == {"pass", "fail", "undefined"}

(* history: the generation of the test that the tree shows under the id of
   test, -1 when it shows none *)
ShownGeneration(test) ==
  LET S == {n \in TreeNodes : n.kind = "test" /\ n.uri = test.uri /\ n.name = test.name}
  IN IF S = {} THEN -1 ELSE (CHOOSE n \in S : TRUE).generation

(* the mutant of processReturns: the result of a test whose node is no
   longer the one of the tree is dropped *)
processReturns_Fresh(r, i, error, verdict) ==
  /\ microtasks = <<>>
  /\ r \in 1..Len(runs)
  /\ i \in 1..Len(runs[r].queue)
  /\ runs[r].st[i] = "running"
  /\ LET rec == runs[r]
         test == rec.queue[i]
         exe == executeShellCommandPromise(error)
         c == CoverageStep(rec.coveredLines, test)
     IN SetRun(r, Settle([rec EXCEPT
          !.reports[i] = IF ShownGeneration(test) = test.generation
                         THEN Append(@, TestCaseRun(exe, verdict)) ELSE @,
          !.exit[i] = IF error THEN "error" ELSE "ok",
          !.verdictAt[i] = IF error THEN verdict ELSE "unread",
          !.shownAt[i] = ShownGeneration(test),
          !.st[i] = IF c.threw THEN "threw" ELSE "completed",
          !.coveredLines = c.coveredLines]))
  /\ UNCHANGED <<resolveCalls, grouped, fs, generationCounter, handlers, microtasks, passes,
                 listeners>>
  /\ TreeUnchanged /\ PureUnchanged

(* the external process of the i-th entry returns: TestCase.run reports the
   result and exec goes on to the coverage counter *)
processReturns(r, i, error, verdict) ==
  /\ microtasks = <<>>
  /\ r \in 1..Len(runs)
  /\ i \in 1..Len(runs[r].queue)
  /\ runs[r].st[i] = "running"
  /\ LET rec == runs[r]
         test == rec.queue[i]
         exe == executeShellCommandPromise(error)
         c == CoverageStep(rec.coveredLines, test)
     IN SetRun(r, Settle([rec EXCEPT
          !.reports[i] = Append(@, TestCaseRun(exe, verdict)),
          !.exit[i] = IF error THEN "error" ELSE "ok",
          !.verdictAt[i] = IF error THEN verdict ELSE "unread",
          !.shownAt[i] = ShownGeneration(test),
          !.st[i] = IF c.threw THEN "threw" ELSE "completed",
          !.coveredLines = c.coveredLines]))
  /\ UNCHANGED <<resolveCalls, grouped, fs, generationCounter, handlers, microtasks, passes,
                 listeners>>
  /\ TreeUnchanged /\ PureUnchanged

(***************************************************************************)
(* The Extractor and the hasTests rule of the Reconciler on a text alone.  *)
(***************************************************************************)
Frags == <<KW, <<"a">>, QB, <<"x">>, RB, <<NL>>, DeclA>>

RECURSIVE TextsOf(_)
TextsOf(n) ==
  IF n = 0 THEN {<<>>}
  ELSE LET S == TextsOf(n - 1)
       IN S \cup {t \o Frags[i] : t \in S, i \in 1..Len(Frags)}

NotExtracted == [done |-> FALSE]

(* a new WingFile reconciled with ptext: updateFromContents(ptext, ...) *)
extract ==
  /\ ~pres.done
  /\ pres' = [done |-> TRUE,
              file |-> AfterContents(AfterReadText(NewHandler(FileSeq[1], "plain"),
                                                   ptext, 0))]
  /\ UNCHANGED <<resolveCalls, grouped, fs, generationCounter, handlers, microtasks, passes,
                 listeners, runs, ptext>>
  /\ TreeUnchanged

(***************************************************************************)
(* Output correlator: parseInput and extractFailureMessage of testTree.    *)
(***************************************************************************)
PASS == <<"p", "a", "s", "s">>
FAIL == <<"f", "a", "i", "l">>
TESTC == <<"t", "e", "s", "t", ":">>
CORNER == "+"   \* stands for the box-drawing corner U+2514

(* \w, \s and the line terminators of the regular expressions *)
WordChars ==
  {"a", "b", "c", "d", "e", "f", "g", "h", "i", "j", "k", "l", "m", "n", "o",
   "p", "q", "r", "s", "t", "u", "v", "w", "x", "y", "z", "_",
   "0", "1", "2", "3", "4", "5", "6", "7", "8", "9"}
Whitespace == {" ", NL, "\t", "\r", "\f"}
LineTerminators == {NL, "\r"}

(* the end of a run of non-terminators that starts at i: the first line terminator at or
   after i, Len(text)+1 when there is none *)
RECURSIVE LineEnd(_, _)
LineEnd(text, i) ==
  IF i > Len(text) THEN Len(text) + 1
  ELSE IF text[i] \in LineTerminators THEN i
  ELSE LineEnd(text, i + 1)

(* ^ with the m flag *)
AtLineStart(text, i) == i = 1 \/ text[i - 1] \in LineTerminators

(* \b before the t of test: *)
Boundary(text, t) == t = 1 \/ text[t - 1] \notin WordChars

(* one attempt of the regex of parseInput (part_000 237) at position i, with
   the flags g and m: line start, pass or fail, \s, a greedy run of
   characters of the line, word boundary, test:, the rest of the line.  \s takes
   any white space, a line break too; the run is greedy, so the last test:
   of the line it runs over is taken *)
VerdictAt(text, i) ==
  IF ~(AtLineStart(text, i) /\ (HasAt(text, i, PASS) \/ HasAt(text, i, FAIL)))
  THEN [ok |-> FALSE]
  ELSE LET s == i + Len(PASS)
       IN IF s > Len(text) THEN [ok |-> FALSE]
          ELSE IF text[s] \notin Whitespace THEN [ok |-> FALSE]
          ELSE LET e == LineEnd(text, s + 1)
                   T == {t \in (s + 1)..(e - 1) :
                           HasAt(text, t, TESTC) /\ Boundary(text, t)}
               IN IF T = {} THEN [ok |-> FALSE]
                  ELSE LET t == CHOOSE u \in T : \A v \in T : v <= u
                       IN [ok |-> TRUE,
                           status |-> SubSeq(text, i, i + Len(PASS) - 1),
                           variableText |-> SubSeq(text, t + Len(TESTC), e - 1),
                           last |-> e - 1]

(* result[variableText] = status *)
MapPut(result, variableText, status) ==
  {entry \in result : entry.label # variableText}
    \cup {[label |-> variableText, status |-> status]}

(* the loop over input.matchAll(regex) *)
RECURSIVE VerdictsFrom(_, _, _)
VerdictsFrom(text, i, result) ==
  IF i > Len(text) THEN result
  ELSE LET m == VerdictAt(text, i)
       IN IF ~m.ok THEN VerdictsFrom(text, i + 1, result)
          ELSE VerdictsFrom(text, m.last + 1, MapPut(result, m.variableText, m.status))

parseInput(input) == VerdictsFrom(input, 1, {})

(* String.prototype.trim *)
RECURSIVE TrimStart(_)
TrimStart(text) ==
  IF text = <<>> THEN text
  ELSE IF Head(text) \in Whitespace THEN TrimStart(Tail(text))
  ELSE text

RECURSIVE TrimEnd(_)
TrimEnd(text) ==
  IF text = <<>> THEN text
  ELSE IF text[Len(text)] \in Whitespace THEN TrimEnd(SubSeq(text, 1, Len(text) - 1))
  ELSE text

Trim(text) == TrimEnd(TrimStart(text))

(* the mutant of FailureAt: the run is greedy and ends at the last corner *)
FailureAt_Greedy(text, i) ==
  IF ~HasAt(text, i, FAIL) THEN [ok |-> FALSE]
  ELSE LET C == {c \in (i + Len(FAIL))..Len(text) : text[c] = CORNER}
       IN IF C = {} THEN [ok |-> FALSE]
          ELSE [ok |-> TRUE,
                extractedPart |->
                  Trim(SubSeq(text, i + Len(FAIL),
                              (CHOOSE c \in C : \A d \in C : d <= c) - 1))]

(* one attempt of the regex of extractFailureMessage (part_000 225) at
   position i: fail, a lazy run of any characters, the corner; the run ends
   at the first corner after fail; match[1].trim() *)
FailureAt(text, i) ==
  IF ~HasAt(text, i, FAIL) THEN [ok |-> FALSE]
  ELSE LET C == {c \in (i + Len(FAIL))..Len(text) : text[c] = CORNER}
       IN IF C = {} THEN [ok |-> FALSE]
          ELSE [ok |-> TRUE,
                extractedPart |->
                  Trim(SubSeq(text, i + Len(FAIL),
                              (CHOOSE c \in C : \A d \in C : c <= d) - 1))]

(* regex.exec(input): the leftmost match *)
RECURSIVE FailureFrom(_, _)
FailureFrom(text, i) ==
  IF i > Len(text) THEN [ok |-> FALSE]
  ELSE IF FailureAt(text, i).ok THEN FailureAt(text, i)
  ELSE FailureFrom(text, i + 1)

(* extractFailureMessage: undefined (ok = FALSE) without match *)
extractFailureMessage(input) == FailureFrom(input, 1)

(* result.error = extractFailureMessage(exe.error) || exe.error in the
   current TestCase.run, || 'Unknown error' in the older one *)
ResultError(input) ==
  LET m == extractFailureMessage(input)
  IN IF m.ok /\ m.extractedPart # <<>> THEN m.extractedPart
     ELSE IF grouped THEN input ELSE <<"Unknown error">>

MaxOut == 4        \* fragments of an output of the runner

OutFrags == <<PASS, FAIL, <<" ">>, TESTC, <<"a">>, <<NL>>, <<CORNER>>>>

RECURSIVE OutputsOf(_)
OutputsOf(n) ==
  IF n = 0 THEN {<<>>}
  ELSE LET S == OutputsOf(n - 1)
       IN S \cup {t \o OutFrags[i] : t \in S, i \in 1..Len(OutFrags)}

(* TestCase.run on the output ptext of a failed invocation (part_000 174-175,
   189) *)
correlate ==
  /\ ~pres.done
  /\ pres' = [done |-> TRUE,
              errorPerTest |-> parseInput(ptext),
              excerpt |-> extractFailureMessage(ptext),
              error |-> ResultError(ptext)]
  /\ UNCHANGED <<resolveCalls, grouped, fs, generationCounter, handlers, microtasks, passes,
                 listeners, runs, ptext>>
  /\ TreeUnchanged

(***************************************************************************)
(* Specifications.                                                         *)
(***************************************************************************)
InitProgram ==
  /\ resolveCalls = 0
  /\ generationCounter = 0
  /\ rootItems = [f \in Files |-> NoItem]
  /\ wsChildren = [f \in Files |-> NoItem]
  /\ handlers = <<>>
  /\ microtasks = <<>>
  /\ passes = <<>>
  /\ listeners = <<>>
  /\ runs = <<>>

Init ==
  /\ grouped \in BOOLEAN
  /\ fs \in [Files -> 0..Len(Texts)]
  /\ InitProgram
  /\ ptext = <<>>
  /\ pres = NotExtracted

InitExtract ==
  /\ grouped = TRUE
  /\ fs = [f \in Files |-> 0]
  /\ InitProgram
  /\ ptext \in TextsOf(MaxFrags)
  /\ pres = NotExtracted

(* the call of createTestItemFromFile that the initial discovery of activate
   makes for the k-th existing file, after its updateFromContents *)
ScanCall(k) ==
  LET f == ExistingFiles[k]
  IN AfterContents(AfterRead([NewHandler(f, "plain") EXCEPT !.content = fs[f]], k - 1))

ScanItems ==
  [f \in Files |->
     IF \E k \in 1..Len(ExistingFiles) : ExistingFiles[k] = f /\ ScanCall(k).hasTests
     THEN FileItem(ScanCall(CHOOSE k \in 1..Len(ExistingFiles) : ExistingFiles[k] = f))
     ELSE NoItem]

RECURSIVE ScanTestsFrom(_)
ScanTestsFrom(k) ==
  IF k > Len(ExistingFiles) THEN <<>>
  ELSE ScanCall(k).children \o ScanTestsFrom(k + 1)

ScanTests == ScanTestsFrom(1)

(* the state when the initial discovery of activate has completed, the files
   having been reconciled one after the other *)
InitRun ==
  /\ grouped \in BOOLEAN
  /\ fs \in [Files -> 0..Len(Texts)]
  /\ Len(ScanTests) <= MaxTests
  /\ resolveCalls = 0
  /\ generationCounter = Len(ExistingFiles)
  /\ rootItems = IF grouped THEN [f \in Files |-> NoItem] ELSE ScanItems
  /\ wsChildren = IF grouped THEN ScanItems ELSE [f \in Files |-> NoItem]
  /\ handlers = <<>>
  /\ microtasks = <<>>
  /\ passes = [k \in 1..Len(ExistingFiles) |-> Pass(ScanCall(k))]
  /\ listeners = <<>>
  /\ runs = <<>>
  /\ ptext = <<>>
  /\ pres = NotExtracted

(* a call of createTestItemFromFile from its file read to its return *)
CallNext ==
  \/ \E h \in 1..Len(handlers) : ReadExec(h)
  \/ \E h \in 1..Len(handlers) : ReadDone(h)
  \/ updateFromContents
  \/ createTestItemFromFile
  \/ onDidChangeFire

(* the file watchers *)
WatchNext ==
  \/ \E f \in Files, t \in TextIds : onDidCreate(f, t)
  \/ \E f \in Files, t \in TextIds : onDidChange(f, t)
  \/ \E f \in Files : onDidDelete(f)

TreeNext ==
  \/ CallNext
  \/ WatchNext
  \/ findTestFilesInWorkspace
  \/ \E f \in Files : onDidOpenTextDocument(f)

RunNext ==
  \/ \E include \in SubsetsUpTo(TreeNodes, MaxInclude),
        exclude \in SubsetsUpTo(TreeNodes, MaxExclude) : runHandler(include, exclude)
  \/ \E r \in 1..Len(runs) : cancelRun(r)
  \/ \E r \in 1..Len(runs) : coverageRead(r)
  \/ \E r \in 1..Len(runs) : runTestQueue(r)
  \/ \E r \in 1..Len(runs) :
       \E i \in 1..Len(runs[r].queue), error \in BOOLEAN, verdict \in Verdicts :
         processReturns(r, i, error, verdict)

ContinuousNext ==
  \/ \E exclude \in SubsetsUpTo(TreeNodes, MaxExclude) : runHandlerContinuous(exclude)
  \/ \E l \in 1..Len(listeners) : cancelContinuous(l)
  \/ startTestRunContinuous

(* the tree under file events, no run requested *)
Spec == Init /\ [][TreeNext]_vars

(* one-shot runs requested after the initial discovery, while change events
   reconcile the files *)
RaceNext ==
  \/ runHandler({}, {})
  \/ \E r \in 1..Len(runs) : coverageRead(r)
  \/ \E r \in 1..Len(runs) : runTestQueue(r)
  \/ \E r \in 1..Len(runs) :
       \E i \in 1..Len(runs[r].queue), error \in BOOLEAN, verdict \in Verdicts :
         processReturns(r, i, error, verdict)
  \/ CallNext
  \/ \E f \in Files, t \in TextIds : onDidChange(f, t)

(* the initial discovery has found the first file alone *)
InitRace == InitRun /\ \A k \in 2..Len(FileSeq) : fs[FileSeq[k]] = 0

SpecRace == InitRace /\ [][RaceNext]_vars

(* the tree under file events and resolve requests *)
SpecResolve == Init /\ [][TreeNext \/ \E f \in Files : resolveHandler(f)]_vars

(* one-shot runs requested after the initial discovery; files may be deleted *)
SpecRun == InitRun /\ [][RunNext \/ \E f \in Files : onDidDelete(f)]_vars

(* continuous-mode requests after the initial discovery, with file events, up
   to the creation of the runs *)
SpecContinuous == InitRun /\ [][CallNext \/ WatchNext \/ ContinuousNext]_vars

InitOutput ==
  /\ grouped \in BOOLEAN
  /\ fs = [f \in Files |-> 0]
  /\ InitProgram
  /\ ptext \in OutputsOf(MaxOut)
  /\ pres = NotExtracted

NextOutput == correlate

(* the Output Correlator on an output of the runner alone *)
SpecOutput == InitOutput /\ [][NextOutput]_vars

NextExtract == extract

SpecExtract == InitExtract /\ [][NextExtract]_vars

(***************************************************************************)
(* Properties of the runs.                                                 *)
(***************************************************************************)
Last(sq) == sq[Len(sq)]
Range(sq) == {sq[i] : i \in 1..Len(sq)}
RunIds == 1..Len(runs)
Entries(rec) == 1..Len(rec.queue)

(* runTestQueue has mapped exec over the queue *)
QueueStarted(rec) == rec.phase \notin {"discovering", "queued"}

(* the flag was set while every entry was still waiting for runTestQueue *)
CancelledBeforeStart(rec) ==
  /\ rec.cancelled
  /\ QueueStarted(rec)
  /\ \A i \in Entries(rec) : rec.cancelSeen[i] = "queued"

(* C1: when the cancellation flag of a run is set before runTestQueue starts
   the queue, every queued test is reported enqueued and then skipped and
   nothing else: it is never reported started, passed or failed, and its
   process is never started. *)
C1_CancelledBeforeStartAllSkipped ==
  \A r \in RunIds :
    CancelledBeforeStart(runs[r]) =>
      \A i \in Entries(runs[r]) :
        /\ runs[r].reports[i] = <<"enqueued", "skipped">>
        /\ runs[r].st[i] # "running"
        /\ runs[r].flagAt[i] = "set"

C1_Witness ==
  \E r \in RunIds :
    /\ CancelledBeforeStart(runs[r])
    /\ Len(runs[r].queue) = 2
    /\ \A i \in Entries(runs[r]) : Last(runs[r].reports[i]) = "skipped"

Ladders ==
  {<<"enqueued">>, <<"enqueued", "skipped">>, <<"enqueued", "started">>,
   <<"enqueued", "started", "passed">>, <<"enqueued", "started", "failed">>}

(* C2: the reports made for a queued test of a run are ordered: enqueued
   first, then started or skipped, and passed or failed only directly after
   started; no test is passed or failed without having been started, nor
   started without having been enqueued. *)
C2_ReportOrder ==
  \A r \in RunIds : \A i \in Entries(runs[r]) : runs[r].reports[i] \in Ladders

C2_Witness ==
  \E r \in RunIds : \E i, j \in Entries(runs[r]) :
    /\ runs[r].reports[i] = <<"enqueued", "started", "failed">>
    /\ runs[r].reports[j] = <<"enqueued", "started", "passed">>

(* the id of a node: the uri of a file, `${uri}/${name}` of a test *)
NodeId(n) ==
  IF n.kind = "test" THEN <<n.uri, n.name>>
  ELSE IF n.kind = "file" THEN <<n.uri>>
  ELSE <<>>

(* the exclusion set of the request a run was made for *)
RequestExclude(rec) ==
  IF rec.origin = 0 THEN rec.exclude ELSE listeners[rec.origin].exclude

(* C3: no node of the exclusion set of a request, and no test below an
   excluded file, is enqueued by a run made for the request; a run that a
   continuous-mode request starts on a file change is a run made for it. *)
C3_ExcludedNeverEnqueued ==
  \A r \in RunIds :
    LET excluded == {NodeId(n) : n \in RequestExclude(runs[r])}
    IN \A i \in Entries(runs[r]) :
         /\ NodeId(runs[r].queue[i]) \notin excluded
         /\ <<runs[r].queue[i].uri>> \notin excluded

(* the file items of the tree a run was requested on *)
FileNodesAt(tree) ==
  {tree.rootItems[f] : f \in Files} \cup {tree.wsChildren[f] : f \in Files}

(* the TestCase leaves of that tree that the exclusion set keeps, each with
   the file item above it; the workspace item is above every file item of
   wsChildren *)
KeptLeavesAt(tree, exclude) ==
  {c \in UNION {Range(n.children) : n \in {m \in FileNodesAt(tree) : m.kind = "file"}} :
     /\ c \notin exclude
     /\ \E f \in Files :
          \/ /\ tree.rootItems[f].kind = "file"
             /\ c \in Range(tree.rootItems[f].children)
             /\ tree.rootItems[f] \notin exclude
          \/ /\ tree.wsChildren[f].kind = "file"
             /\ c \in Range(tree.wsChildren[f].children)
             /\ tree.wsChildren[f] \notin exclude
             /\ WorkspaceItem \notin exclude}

(* C4: the queue of a run whose request has no inclusion set holds exactly
   the TestCase leaves of the tree that are not excluded, each once, whether
   they sit below a file of the root or below a file of the workspace item;
   it holds no file and no workspace item. *)
C4_QueueIsKeptLeaves ==
  \A r \in RunIds :
    ~runs[r].hasInclude =>
      /\ Range(runs[r].queue) = KeptLeavesAt(runs[r].treeAt, runs[r].exclude)
      /\ \A i, j \in Entries(runs[r]) : runs[r].queue[i] = runs[r].queue[j] => i = j
      /\ \A i \in Entries(runs[r]) : runs[r].queue[i].kind = "test"

C4_Witness ==
  \E r \in RunIds :
    /\ ~runs[r].hasInclude
    /\ grouped
    /\ runs[r].exclude # {}
    /\ Len(runs[r].queue) = 1
    /\ Cardinality(UNION {Range(n.children) :
         n \in {m \in FileNodesAt(runs[r].treeAt) : m.kind = "file"}}) = 2

(* C5: every run ends: once runTestQueue has started the queue and no
   process is still running, the run has been ended; and a run is ended only
   when every queued test has been reported skipped, passed or failed. *)
C5_RunEnds ==
  \A r \in RunIds :
    /\ (QueueStarted(runs[r]) /\ \A i \in Entries(runs[r]) : runs[r].st[i] # "running")
         => runs[r].ended
    /\ runs[r].ended =>
         \A i \in Entries(runs[r]) :
           Last(runs[r].reports[i]) \in {"skipped", "passed", "failed"}

(* C6: the flag is read only when exec is about to start a test.  A test
   whose process was running when the flag was set had read the flag clear,
   is never reported skipped and is reported passed or failed when its
   process returns; a test that reads the flag set is skipped and never
   started. *)
C6_CancelOnlyAtStart ==
  \A r \in RunIds : \A i \in Entries(runs[r]) :
    /\ runs[r].cancelSeen[i] = "running" =>
         /\ runs[r].flagAt[i] = "clear"
         /\ "skipped" \notin Range(runs[r].reports[i])
         /\ runs[r].st[i] # "running" =>
              Last(runs[r].reports[i]) \in {"passed", "failed"}
    /\ runs[r].flagAt[i] = "set" =>
         /\ "started" \notin Range(runs[r].reports[i])
         /\ Last(runs[r].reports[i]) = "skipped"

C6_Witness ==
  \E r \in RunIds : \E i \in Entries(runs[r]) :
    /\ runs[r].cancelSeen[i] = "running"
    /\ Last(runs[r].reports[i]) \in {"passed", "failed"}

(***************************************************************************)
(* Properties of the tree.                                                 *)
(***************************************************************************)

(* names and ranges of the children of a pass, without their generation *)
Shape(children) ==
  [i \in 1..Len(children) |->
     [name |-> children[i].name, lineNumber |-> children[i].lineNumber,
      lineLength |-> children[i].lineLength]]

(* C7: the generations of the reconciliation passes are strictly increasing
   in the order of the passes, so none is used twice; two passes of one file
   with the same content give children with the same names and ranges, those
   of the later pass with a strictly greater generation. *)
C7_GenerationIncreases ==
  \A i, j \in 1..Len(passes) :
    i < j =>
      /\ passes[i].generation < passes[j].generation
      /\ \A a \in Range(passes[i].children), b \in Range(passes[j].children) :
           a.generation < b.generation
      /\ (passes[i].uri = passes[j].uri /\ passes[i].content = passes[j].content)
           => Shape(passes[i].children) = Shape(passes[j].children)

C7_Witness ==
  \E i, j \in 1..Len(passes) :
    /\ i < j
    /\ passes[i].uri = passes[j].uri
    /\ passes[i].content = passes[j].content
    /\ Len(passes[j].children) = 2

(* the children that a collection of file items shows for file f *)
ChildrenIn(coll, f) ==
  IF coll[f].kind = "file" THEN Range(coll[f].children) ELSE {}

(* the call of createTestItemFromFile that is about to return *)
Returning ==
  /\ microtasks # <<>>
  /\ Head(microtasks).job = "createTestItemFromFile"

ReturningCall == handlers[Head(microtasks).h]

(* C8: when a reconciliation of a file returns, the children the tree shows
   for the file are exactly the tests extracted from the content it read,
   each made by this pass: no child of an earlier pass is left. *)
C8_ChildrenAreExtraction ==
  [][Returning =>
       LET d == ReturningCall
           extraction == {TestItem(d.uri, d.testCases[k], d.generation) :
                            k \in 1..Len(d.testCases)}
       IN IF grouped
          THEN ChildrenIn(wsChildren', d.uri) = extraction
          ELSE ChildrenIn(rootItems', d.uri) = extraction]_vars

(* a text holds a declaration: test "name" {body} with a non-empty name
   without quote and a non-empty body without closing brace *)
HasDeclaration(text) ==
  \E i \in {k \in 1..Len(text) : HasAt(text, k, KW)} :
    \E q \in {k \in (i + Len(KW) + 1)..Len(text) : HasAt(text, k, QB)} :
      /\ \A k \in (i + Len(KW))..(q - 1) : text[k] # QUOTE
      /\ \E b \in (q + Len(QB) + 1)..Len(text) :
           /\ text[b] = "}"
           /\ \A k \in (q + Len(QB))..(b - 1) : text[k] # "}"

(* C9: for a text without declaration the Extractor returns the empty list
   and the Reconciler sets hasTests to false; for a text with at least one
   declaration hasTests is true after the reconciliation. *)
C9_HasTestsIffDeclaration ==
  pres.done =>
    IF HasDeclaration(ptext)
    THEN pres.file.hasTests
    ELSE /\ ~pres.file.threw
         /\ pres.file.testCases = <<>>
         /\ ~pres.file.hasTests

C9_Witness ==
  /\ pres.done
  /\ ~HasDeclaration(ptext)
  /\ HasAt(ptext, 1, KW)
  /\ ~pres.file.hasTests

(* C10: when a reconciliation that found no test returns, the tree holds no
   node for the file, neither in the root collection nor below the workspace
   item, whether or not it held one before. *)
C10_ZeroTestsPruned ==
  [][(Returning /\ ReturningCall.testCases = <<>> /\ ~ReturningCall.threw) =>
       /\ rootItems'[ReturningCall.uri] = NoItem
       /\ wsChildren'[ReturningCall.uri] = NoItem]_vars

(* the step is the delete event of file f *)
Deleted(f) == fs[f] # 0 /\ fs'[f] = 0

(* C11: a delete event of a file removes the node of the file, from the
   children of the workspace item when that item exists and from the root
   collection otherwise, also when there is no such node; every other node
   of the tree is left as it was. *)
C11_DeleteRemovesOnlyTheNode ==
  [][\A f \in Files :
       Deleted(f) =>
         /\ IF grouped
            THEN wsChildren'[f] = NoItem /\ rootItems' = rootItems
            ELSE rootItems'[f] = NoItem /\ wsChildren' = wsChildren
         /\ \A g \in Files \ {f} :
              rootItems'[g] = rootItems[g] /\ wsChildren'[g] = wsChildren[g]]_vars

C11_Witness ==
  \E f \in Files :
    /\ grouped
    /\ fs[f] = 0
    /\ InFlight = {}
    /\ \E i \in 1..Len(passes) : passes[i].uri = f /\ passes[i].children # <<>>
    /\ wsChildren[f] = NoItem
    /\ \E g \in Files \ {f} : wsChildren[g] # NoItem

(* the step in which updateFromDisk of call h resumes after a read of the
   file that failed *)
ReadFailed(h) ==
  /\ handlers[h].phase = "fetched"
  /\ handlers[h].content = 0
  /\ handlers'[h] # handlers[h]

(* C12: when the read of the file fails, updateFromDisk attaches the error
   to the file item and goes no further: the generation counter keeps its
   value and didResolve, hasTests and the children of the file are left as
   they were. *)
C12_ReadFailureStops ==
  [][\A h \in 1..Len(handlers) :
       ReadFailed(h) =>
         /\ handlers'[h].error
         /\ generationCounter' = generationCounter
         /\ handlers'[h].didResolve = handlers[h].didResolve
         /\ handlers'[h].hasTests = handlers[h].hasTests
         /\ handlers'[h].children = handlers[h].children]_vars

(* C13 as stated: a test whose process invocation failed is reported
   failed, never passed and never left running, and the other tests and the
   run are not affected. *)
C13_FailedInvocationFails ==
  \A r \in RunIds : \A i \in Entries(runs[r]) :
    runs[r].exit[i] = "error" =>
      /\ runs[r].st[i] # "running"
      /\ Last(runs[r].reports[i]) = "failed"
      /\ \A j \in Entries(runs[r]) :
           runs[r].exit[j] = "ok" => Last(runs[r].reports[j]) = "passed"

(* C13 amended: the result of a failed invocation is the failure result,
   whatever the callback resolves afterwards, so the verdict map decides: the
   test is reported failed when the map has "fail" for its label and passed
   when it has "pass"; it is never left running, a test whose own invocation
   succeeded is reported passed all the same, and the run is ended when
   every exec has completed. *)
C13_FailedInvocationByVerdict ==
  \A r \in RunIds : \A i \in Entries(runs[r]) :
    runs[r].exit[i] = "error" =>
      /\ runs[r].st[i] # "running"
      /\ runs[r].verdictAt[i] = "fail" => Last(runs[r].reports[i]) = "failed"
      /\ runs[r].verdictAt[i] = "pass" => Last(runs[r].reports[i]) = "passed"
      /\ \A j \in Entries(runs[r]) :
           runs[r].exit[j] = "ok" => Last(runs[r].reports[j]) = "passed"
      /\ (\A j \in Entries(runs[r]) : runs[r].st[j] = "completed") => runs[r].ended

C13_Witness ==
  \E r \in RunIds : \E i, j \in Entries(runs[r]) :
    /\ runs[r].exit[i] = "error"
    /\ runs[r].verdictAt[i] = "fail"
    /\ Last(runs[r].reports[i]) = "failed"
    /\ runs[r].exit[j] = "ok"
    /\ Last(runs[r].reports[j]) = "passed"
    /\ runs[r].ended

(* C14: a test whose label the verdict map does not hold is reported
   failed, and the verdict map makes a test passed only by holding "pass" for
   its label. *)
C14_AbsentLabelFails ==
  \A r \in RunIds : \A i \in Entries(runs[r]) :
    runs[r].exit[i] = "error" =>
      /\ runs[r].verdictAt[i] = "undefined" => Last(runs[r].reports[i]) = "failed"
      /\ Last(runs[r].reports[i]) = "passed" => runs[r].verdictAt[i] = "pass"

(* the runs started for the continuous-mode request of listener l *)
RunsOf(l) == {r \in RunIds : runs[r].origin = l}

(* the calls of createTestItemFromFile that listener l has in flight *)
RediscoveriesOf(l) ==
  {h \in InFlight : handlers[h].kind = "listener" /\ handlers[h].listener = l}

(* C15: every firing of fileChangedEmitter that a subscribed listener gets
   leads to one re-discovery of the file and then to exactly one run; the
   run includes only the file item of that re-discovery, made by a
   reconciliation pass that has completed, and enqueues no test of another
   file. *)
C15_OneScopedRunPerFiring ==
  /\ \A l \in 1..Len(listeners) :
       Cardinality(RunsOf(l)) + Cardinality(RediscoveriesOf(l)) = listeners[l].fired
  /\ \A r \in RunIds :
       runs[r].origin # 0 =>
         /\ runs[r].hasInclude
         /\ Len(runs[r].include) = 1
         /\ runs[r].include[1].kind = "file"
         /\ \E i \in 1..Len(passes) :
              /\ passes[i].uri = runs[r].include[1].uri
              /\ passes[i].generation = runs[r].include[1].generation
              /\ passes[i].children = runs[r].include[1].children
         /\ Range(runs[r].queue) = Range(runs[r].include[1].children)
         /\ \A i \in Entries(runs[r]) : runs[r].queue[i].uri = runs[r].include[1].uri

C15_Witness ==
  \E r \in RunIds :
    /\ runs[r].origin # 0
    /\ listeners[runs[r].origin].active
    /\ listeners[runs[r].origin].exclude = {}
    /\ Len(runs[r].queue) = 1
    /\ \E f \in Files \ {runs[r].include[1].uri} :
         (IF grouped THEN wsChildren[f] ELSE rootItems[f]).kind = "file"

(* C16: no run is started for a continuous-mode request once the request
   has been cancelled, neither for a firing after the cancellation nor for a
   firing before it whose re-discovery was in flight when it was cancelled. *)
C16_NoRunAfterCancel ==
  [][\A l \in 1..Len(listeners) :
       ~listeners[l].active =>
         \A r \in 1..Len(runs') : r > Len(runs) => runs'[r].origin # l]_vars

(* every event handler has completed *)
Quiescent == InFlight = {} /\ microtasks = <<>>

(* names and ranges of the tests the tree shows for file f *)
ShownFor(f) ==
  LET node == IF grouped THEN wsChildren[f] ELSE rootItems[f]
  IN IF node.kind = "file" THEN Range(Shape(node.children)) ELSE {}

(* names and ranges of the tests in the content that file f has on disk,
   which is the content of the most recent event for f *)
OnDiskFor(f) ==
  LET tests == parseWingFile(getContentFromFilesystem(f)).tests
  IN {[name |-> tests[k].name, lineNumber |-> tests[k].lineNumber,
       lineLength |-> tests[k].lineLength] : k \in 1..Len(tests)}

(* C17: when every event handler has completed, the node of a file that was
   reconciled shows the tests of the content of the most recent event for
   the file, whatever the order in which the file reads completed. *)
C17_TreeFollowsLatestEvent ==
  Quiescent =>
    \A f \in Files :
      (Exists(f) /\ \E i \in 1..Len(passes) : passes[i].uri = f) =>
        ShownFor(f) = OnDiskFor(f)
(* a declaration test "name" {body} starts at position i of the text: the
   name is not empty and has no quote, the body is not empty and has no
   closing brace *)
IsDeclAt(text, i) ==
  /\ HasAt(text, i, KW)
  /\ \E q \in (i + Len(KW) + 1)..Len(text) :
       /\ HasAt(text, q, QB)
       /\ \A k \in (i + Len(KW))..(q - 1) : text[k] # QUOTE
       /\ \E b \in (q + Len(QB) + 1)..Len(text) :
            /\ text[b] = "}"
            /\ \A k \in (q + Len(QB))..(b - 1) : text[k] # "}"

DeclStarts(text) == {i \in 1..Len(text) : IsDeclAt(text, i)}

(* the quote that closes the name of the declaration at i *)
DeclQuote(text, i) ==
  CHOOSE q \in (i + Len(KW) + 1)..Len(text) :
    /\ text[q] = QUOTE
    /\ \A k \in (i + Len(KW))..(q - 1) : text[k] # QUOTE

DeclName(text, i) == SubSeq(text, i + Len(KW), DeclQuote(text, i) - 1)

(* the brace that closes the declaration at i *)
DeclLast(text, i) ==
  CHOOSE b \in (DeclQuote(text, i) + Len(QB) + 1)..Len(text) :
    /\ text[b] = "}"
    /\ \A k \in (DeclQuote(text, i) + Len(QB))..(b - 1) : text[k] # "}"

(* no declaration starts inside another one *)
NonNested(text) ==
  \A i, j \in DeclStarts(text) : i < j => DeclLast(text, i) < j

(* the start of the k-th declaration of the text *)
KthDecl(text, k) ==
  CHOOSE i \in DeclStarts(text) :
    Cardinality({j \in DeclStarts(text) : j < i}) = k - 1

(* C18: for a text with n declarations, none inside another, the Extractor
   returns n entries in the order of the text, the k-th with the name of the
   k-th declaration, which is not empty, and with the range of the first
   line of the text that contains the name, over the full width of it. *)
C18_OneEntryPerDeclaration ==
  (pres.done /\ NonNested(ptext)) =>
    LET lines == Split(ptext)
        tests == pres.file.testCases
    IN /\ ~pres.file.threw
       /\ Len(tests) = Cardinality(DeclStarts(ptext))
       /\ \A k \in 1..Len(tests) :
            /\ tests[k].name = DeclName(ptext, KthDecl(ptext, k))
            /\ tests[k].name # <<>>
            /\ tests[k].lineNumber \in 0..(Len(lines) - 1)
            /\ Includes(lines[tests[k].lineNumber + 1], tests[k].name)
            /\ \A j \in 1..tests[k].lineNumber : ~Includes(lines[j], tests[k].name)
            /\ tests[k].lineLength = Len(lines[tests[k].lineNumber + 1])

(* pass x test:addition, fail x test:subtraction *)
ExampleOutput ==
  <<"p", "a", "s", "s", " ", "x", " ", "t", "e", "s", "t", ":", "a", "d", "d", "i", "t", "i", "o", "n", NL, "f", "a", "i", "l", " ", "x", " ", "t", "e", "s", "t", ":", "s", "u", "b", "t", "r", "a", "c", "t", "i", "o", "n">>

(* line k of the lines is of the form pass|fail, white space, anything,
   test:label *)
VerdictLine(line) ==
  /\ HasAt(line, 1, PASS) \/ HasAt(line, 1, FAIL)
  /\ Len(line) > Len(PASS)
  /\ line[Len(PASS) + 1] \in Whitespace
  /\ \E t \in (Len(PASS) + 2)..Len(line) : HasAt(line, t, TESTC) /\ Boundary(line, t)

(* the label of such a line: what follows its last test: *)
LineLabel(line) ==
  LET t == CHOOSE u \in 1..Len(line) :
             /\ u > Len(PASS) + 1 /\ HasAt(line, u, TESTC) /\ Boundary(line, u)
             /\ \A v \in (u + 1)..Len(line) : ~(HasAt(line, v, TESTC) /\ Boundary(line, v))
  IN SubSeq(line, t + Len(TESTC), Len(line))

(* the verdict map as the lines of the output give it: one entry per label
   of a matching line, with the status of the last matching line of it *)
LineVerdicts(text) ==
  LET lines == Split(text)
      M == {k \in 1..Len(lines) : VerdictLine(lines[k])}
  IN {[label |-> LineLabel(lines[k]), status |-> SubSeq(lines[k], 1, Len(PASS))] :
        k \in {j \in M : \A n \in M : n > j => LineLabel(lines[n]) # LineLabel(lines[j])}}

(* C19: the verdict map of an output has exactly one entry per label of the
   lines of the form pass|fail ... test:label, the label being what follows
   test: up to the end of the line and the value the status of the last such
   line for the label; the output with pass ... test:addition and
   fail ... test:subtraction gives addition: pass, subtraction: fail. *)
C19_VerdictMapOfLines ==
  /\ pres.done => pres.errorPerTest = LineVerdicts(ptext)
  /\ parseInput(ExampleOutput) = LineVerdicts(ExampleOutput)

(* the positions of the token fail, and of the corners after the first one *)
FailStarts(text) == {i \in 1..Len(text) : HasAt(text, i, FAIL)}

FirstFail(text) == CHOOSE i \in FailStarts(text) : \A j \in FailStarts(text) : i <= j

CornersAfter(text, i) == {c \in (i + Len(FAIL))..Len(text) : text[c] = CORNER}

NextCorner(text, i) ==
  CHOOSE c \in CornersAfter(text, i) : \A d \in CornersAfter(text, i) : c <= d

(* t is s without the white space at its two ends *)
IsTrimOf(t, s) ==
  \E a \in 1..(Len(s) + 1) : \E b \in (a - 1)..Len(s) :
    /\ t = SubSeq(s, a, b)
    /\ \A k \in 1..(a - 1) : s[k] \in Whitespace
    /\ \A k \in (b + 1)..Len(s) : s[k] \in Whitespace
    /\ t # <<>> => t[1] \notin Whitespace /\ t[Len(t)] \notin Whitespace

(* the failure message the caller falls back to *)
FallbackMessages == {ptext, <<"Unknown error">>}

(* C20: the failure excerpt of an output is the trimmed text strictly
   between the first occurrence of fail and the next corner after it; it is
   undefined when no corner follows fail, and the caller then reports a
   fallback failure message. *)
C20_ExcerptBetweenFailAndCorner ==
  pres.done =>
    IF FailStarts(ptext) = {} \/ CornersAfter(ptext, FirstFail(ptext)) = {}
    THEN ~pres.excerpt.ok /\ pres.error \in FallbackMessages
    ELSE /\ pres.excerpt.ok
         /\ IsTrimOf(pres.excerpt.extractedPart,
                     SubSeq(ptext, FirstFail(ptext) + Len(FAIL),
                            NextCorner(ptext, FirstFail(ptext)) - 1))

(* an output with fail, then white space, a word and a corner, has been
   correlated: the excerpt is the word *)
C20_Witness ==
  /\ pres.done
  /\ ptext = FAIL \o <<" ", "a", CORNER>>
  /\ pres.excerpt.ok
  /\ pres.excerpt.extractedPart = <<"a">>
  /\ pres.error = <<"a">>

(***************************************************************************)
(* Resolve requests.                                                       *)
(***************************************************************************)

(* a step in which resolveHandler is called on a file item *)
ResolveStep == resolveCalls' # resolveCalls

(* a step in which a reconciliation pass starts: updateFromContents takes the
   next value of the counter for the call h *)
PassStarts(h) ==
  /\ h \in 1..Len(handlers)
  /\ handlers[h].phase = "fetched"
  /\ handlers'[h].phase = "resolved"
  /\ generationCounter' = generationCounter + 1

(* the file of call h has been reconciled before *)
Reparse(h) == \E i \in 1..Len(passes) : passes[i].uri = handlers[h].uri

(* the original statement of C21: a resolve request on a resolved file
   changes nothing, and a file is parsed again only by the call that a create
   or change event of the watcher makes *)
C21_OnlyWatcherReparses ==
  [][/\ ResolveStep =>
          /\ generationCounter' = generationCounter
          /\ UNCHANGED <<rootItems, wsChildren, handlers, passes>>
     /\ \A h \in 1..Len(handlers) :
          (PassStarts(h) /\ Reparse(h)) =>
            handlers[h].kind \in {"create", "change", "listener"}
    ]_vars

(* C21: a resolve request on a file item already marked resolved does not
   parse the file again: it does not increment the generation counter and
   leaves the children, the hasTests flag and the error of the item as they
   are; a file is parsed again only by a new call of createTestItemFromFile,
   never by resolveHandler. *)
C21_ResolveNeverReparses ==
  [][/\ ResolveStep =>
          /\ generationCounter' = generationCounter
          /\ UNCHANGED <<rootItems, wsChildren, handlers, passes>>
     /\ \A h \in 1..Len(handlers) :
          PassStarts(h) => handlers[h].kind # "resolve"
     /\ generationCounter' # generationCounter => \E h \in 1..Len(handlers) : PassStarts(h)
    ]_vars

(* resolveHandler has been called on the item of a reconciled file that is
   shown with its two tests *)
C21_Witness ==
  /\ resolveCalls = 1
  /\ \E f \in Files :
       /\ ItemOf(f).kind = "file"
       /\ ItemOf(f).data.didResolve
       /\ Len(ItemOf(f).children) = 2

(***************************************************************************)
(* Runs while the files are reconciled.                                    *)
(***************************************************************************)

(* the result of entry i of run r is reported in this step *)
Reports(r, i) ==
  /\ r \in 1..Len(runs)
  /\ i \in Entries(runs[r])
  /\ runs[r].st[i] = "running"
  /\ runs'[r].st[i] # "running"

(* C22: the generation stamped on a test is not consulted when its result is
   reported: the result of a started test is reported passed or failed for
   the node that was enqueued, whatever node the tree shows under its id by
   then; so a run that enqueued a node of generation g reports its result
   after a reconciliation of generation g+1 has replaced the node. *)
C22_StaleResultReported ==
  [][\A r \in 1..Len(runs) : \A i \in Entries(runs[r]) :
       Reports(r, i) =>
         /\ runs'[r].queue[i] = runs[r].queue[i]
         /\ runs'[r].reports[i] \in
              {Append(runs[r].reports[i], "passed"), Append(runs[r].reports[i], "failed")}
         /\ UNCHANGED <<rootItems, wsChildren>>
    ]_vars

(* a result has been reported for an enqueued node of generation g when the
   tree showed a node of generation g+1 under its id *)
C22_Witness ==
  \E r \in RunIds : \E i \in Entries(runs[r]) :
    /\ Last(runs[r].reports[i]) \in {"passed", "failed"}
    /\ runs[r].shownAt[i] = runs[r].queue[i].generation + 1
    /\ ShownGeneration(runs[r].queue[i]) = runs[r].queue[i].generation + 1

(* the process of entry i has been invoked *)
Invoked(rec, i) == rec.flagAt[i] = "clear"

(* the entries whose process has been invoked and has not returned *)
InFlightEntries(rec) == {i \in Entries(rec) : rec.st[i] = "running"}

(* a result of entry i has been reported *)
HasResult(rec, i) ==
  \E k \in 1..Len(rec.reports[i]) : rec.reports[i][k] \in {"passed", "failed"}

(* C23: the queued tests of a run are launched together, without a cap: in a
   run whose flag was clear when the queue was started, every queued test is
   reported started and has its process invoked before the result of any
   test of the run is reported; the number of invocations in flight can
   equal the length of the queue. *)
C23_AllLaunchedBeforeAnyResult ==
  \A r \in RunIds :
    LET rec == runs[r]
    IN /\ (\E i \in Entries(rec) : HasResult(rec, i) \/ Invoked(rec, i)) =>
            \A j \in Entries(rec) :
              /\ Len(rec.reports[j]) >= 2
              /\ rec.reports[j][2] = "started"
              /\ Invoked(rec, j)
       /\ (QueueStarted(rec) /\ \A i \in Entries(rec) : rec.flagAt[i] # "set") =>
            \A j \in Entries(rec) : Invoked(rec, j)
       /\ (/\ QueueStarted(rec)
           /\ \A j \in Entries(rec) : ~HasResult(rec, j)
           /\ \A j \in Entries(rec) : rec.flagAt[j] # "set") =>
            Cardinality(InFlightEntries(rec)) = Len(rec.queue)

(* two tests are queued and both processes are in flight *)
C23_Witness ==
  \E r \in RunIds :
    /\ Len(runs[r].queue) = 2
    /\ ~runs[r].cancelled
    /\ InFlightEntries(runs[r]) = {1, 2}
    /\ \A i \in Entries(runs[r]) : runs[r].reports[i] = <<"enqueued", "started">>

(***************************************************************************)
(* Frame of the file events.                                               *)
(***************************************************************************)

(* the step belongs to an event of file g: its delete event, or the
   continuation of a call of createTestItemFromFile made for g *)
ActsOn(g) ==
  \/ Deleted(g)
  \/ microtasks # <<>> /\ handlers[Head(microtasks).h].uri = g

(* C24: reconciling or deleting one file never discards or alters the node
   of another file: a step of a create, change or delete event of file A
   leaves the node of every other file B, its children and their
   generations as they were. *)
C24_OtherFilesUntouched ==
  [][\A g \in Files :
       (rootItems'[g] # rootItems[g] \/ wsChildren'[g] # wsChildren[g]) => ActsOn(g)
    ]_vars

(* the call of a change event of file A has just set the node of A, and the
   node of file B, reconciled before, shows its two tests *)
C24_Witness ==
  \E h \in 1..Len(handlers) : \E g \in Files :
    /\ handlers[h].phase = "returned"
    /\ handlers[h].kind = "change"
    /\ handlers[h].uri # g
    /\ ItemOf(handlers[h].uri) = FileItem(handlers[h])
    /\ ItemOf(g).kind = "file"
    /\ Len(ItemOf(g).children) = 2
    /\ \A k \in 1..2 : ItemOf(g).children[k].generation < handlers[h].generation

(***************************************************************************)
(* Generation consistency.                                                 *)
(***************************************************************************)

(* the file nodes that the tree shows *)
ShownFileNodes == {ItemOf(f) : f \in {g \in Files : ItemOf(g).kind = "file"}}

(* the passes that have taken their generation and not yet added their
   children *)
PassesUnderWay == {h \in 1..Len(handlers) : handlers[h].phase = "resolved"}

(* C25: all the tests under one file node carry one generation, that of the
   one reconciliation pass that made the child collection of the node; a
   pass increments the counter once, however many tests it gives. *)
C25_GenerationConsistency ==
  /\ \A n \in ShownFileNodes :
       \E i \in 1..Len(passes) :
         /\ passes[i].uri = n.uri
         /\ passes[i].children = n.children
         /\ \A c \in Range(n.children) : c.generation = passes[i].generation
  /\ \A i \in 1..Len(passes) : passes[i].generation = i - 1
  /\ generationCounter = Len(passes) + Cardinality(PassesUnderWay)

(* two passes have been made, and the tree shows a file node with the two
   tests of the second *)
C25_Witness ==
  /\ Len(passes) = 2
  /\ generationCounter = 2
  /\ \E n \in ShownFileNodes :
       /\ Len(n.children) = 2
       /\ \A c \in Range(n.children) : c.generation = 1

(***************************************************************************)
(* Coverage counters.                                                      *)
(***************************************************************************)

(* the entries of a run for the tests of file f at line lineNo whose exec
   has completed *)
CompletedAt(rec, f, lineNo) ==
  {i \in Entries(rec) :
     /\ rec.queue[i].uri = f
     /\ rec.queue[i].lineNumber = lineNo
     /\ rec.st[i] = "completed"}

(* C26: the line counters of a file lose no update: at any time, and so when
   the run has ended, the execution count of a line of a file that has a
   coverage array is the number of queued tests of the file at that line
   whose exec has completed, in whatever order the processes returned. *)
C26_NoLostCoverageUpdate ==
  \A r \in RunIds : \A f \in Files :
    runs[r].coveredLines[f].has =>
      \A k \in 1..Len(runs[r].coveredLines[f].lines) :
        runs[r].coveredLines[f].lines[k] # -1 =>
          runs[r].coveredLines[f].lines[k] = Cardinality(CompletedAt(runs[r], f, k - 1))

(* a run of two tests of one file has ended, and each of their lines has
   been counted once *)
C26_Witness ==
  \E r \in RunIds : \E f \in Files :
    /\ runs[r].ended
    /\ Len(runs[r].queue) = 2
    /\ \A i \in Entries(runs[r]) : runs[r].queue[i].uri = f
    /\ runs[r].coveredLines[f].has
    /\ runs[r].coveredLines[f].lines = <<-1, 1, 1>>

(***************************************************************************)
(* Terminal reports.                                                       *)
(***************************************************************************)
Terminal == {"skipped", "passed", "failed"}

(* the terminal reports made for entry i, by their place among its reports *)
TerminalReports(rec, i) ==
  {k \in 1..Len(rec.reports[i]) : rec.reports[i][k] \in Terminal}

(* C27: within one run a queued test gets exactly one terminal report, one of
   skipped, passed and failed: none while it waits or its process runs, one
   as soon as its exec is past the test, and never a second one, whatever
   the success flag of the invocation and the content of the verdict map. *)
C27_OneTerminalReport ==
  \A r \in RunIds : \A i \in Entries(runs[r]) :
    Cardinality(TerminalReports(runs[r], i)) =
      IF runs[r].st[i] \in {"completed", "threw"} THEN 1 ELSE 0

(* a run has ended in which one invocation failed with no entry for the test
   in the verdict map and the other succeeded: each has one terminal report *)
C27_Witness ==
  \E r \in RunIds : \E i, j \in Entries(runs[r]) :
    /\ runs[r].ended
    /\ runs[r].exit[i] = "error"
    /\ runs[r].verdictAt[i] = "undefined"
    /\ runs[r].exit[j] = "ok"
    /\ Cardinality(TerminalReports(runs[r], i)) = 1
    /\ Cardinality(TerminalReports(runs[r], j)) = 1

(***************************************************************************)
(* Delete events and calls in flight.                                      *)
(***************************************************************************)

(* C28: after a delete event of a file, when every event handler has
   completed and no create or change event of the file has followed, the
   tree holds no node for the file: a call of createTestItemFromFile started
   before the delete and completed after it does not add the node again. *)
C28_DeletedStaysDeleted ==
  \A f \in Files :
    (Quiescent /\ ~Exists(f)) =>
      /\ rootItems[f].kind = "none"
      /\ wsChildren[f].kind = "none"

(***************************************************************************)
(* Order of the continuations of one call.                                 *)
(***************************************************************************)

(* createTestItemFromFile resumes after its await of updateFromDisk *)
Deciding == microtasks # <<>> /\ Head(microtasks).job = "createTestItemFromFile"

DecidingCall == handlers[Head(microtasks).h]

(* C29: when createTestItemFromFile decides whether to add or delete the
   file node, the reconciliation it started has completed:
   updateFromContents has set hasTests and added all children, so the
   decision and canResolveChildren never use the initial hasTests = true of
   a file whose content has no tests. *)
C29_DecisionAfterReconciliation ==
  [][Deciding =>
       LET d == DecidingCall
           tests == parseWingFile(HandlerText(d)).tests
       IN /\ d.phase = "contents"
          /\ d.hasTests = (tests # <<>>)
          /\ {c.name : c \in Range(d.children)} = {t.name : t \in Range(tests)}
          /\ IF tests # <<>>
             THEN (IF grouped THEN wsChildren' ELSE rootItems')[d.uri] = FileItem(d)
             ELSE rootItems'[d.uri] = NoItem /\ FileItem(d).data.hasTests = FALSE
    ]_vars

(* the call of a change event has returned for a file whose content has no
   tests: hasTests was reset before the decision, and no node was added *)
C29_Witness ==
  \E h \in 1..Len(handlers) :
    /\ handlers[h].phase = "returned"
    /\ handlers[h].kind = "change"
    /\ parseWingFile(HandlerText(handlers[h])).tests = <<>>
    /\ ~handlers[h].hasTests
    /\ ItemOf(handlers[h].uri) = NoItem

(***************************************************************************)
(* Totality of the Extractor.                                              *)
(***************************************************************************)

(* C30: the Extractor is total: for every text, one whose test name holds a
   line break included, the extraction completes without error, and the
   line resolved for every match is a 0-based index of a line of the text. *)
C30_ExtractorTotal ==
  pres.done =>
    /\ ~pres.file.threw
    /\ \A k \in 1..Len(pres.file.testCases) :
         pres.file.testCases[k].lineNumber \in 0..(Len(Split(ptext)) - 1)

(***************************************************************************)
(* Identities of the children of a file.                                   *)
(***************************************************************************)

(* no two items of a child collection have the same id *)
UniqueIds(children) ==
  \A i, j \in 1..Len(children) :
    NodeId(children[i]) = NodeId(children[j]) => i = j

(* C31: the identity of a test is the uri of its file, a slash and its name,
   so no two children of one file node share an identity, and a file with
   two declarations of one name ends up with one child for that name. *)
C31_ChildIdsUnique ==
  pres.done =>
    LET children == pres.file.children
        tests == IF pres.file.threw THEN <<>> ELSE pres.file.testCases
    IN /\ UniqueIds(children)
       /\ \A i \in 1..Len(children) :
            NodeId(children[i]) = <<pres.file.uri, children[i].name>>
       /\ {c.name : c \in Range(children)} = {t.name : t \in Range(tests)}
       /\ Len(children) = Cardinality({t.name : t \in Range(tests)})

(* a text with two declarations of one name has been reconciled: the file
   has one child *)
C31_Witness ==
  /\ pres.done
  /\ ~pres.file.threw
  /\ Len(pres.file.testCases) = 2
  /\ pres.file.testCases[1].name = pres.file.testCases[2].name
  /\ Len(pres.file.children) = 1

====
